---- MODULE Spec2Model ----
(***************************************************************************)
(* Model of the content-acquisition core of src/app.py:                    *)
(*   AntiDetectionManager   (browser lifecycle),                           *)
(*   YouTubeContentScraper  (_extract_video_id, get_video_info,            *)
(*                           get_transcript, download_video,               *)
(*                           download_audio),                              *)
(*   YouTubeContentScraperApp.content_scraping_page (the orchestrator).    *)
(*                                                                         *)
(* Strings are sequences of one-character strings, so that URL parsing is  *)
(* computed character by character as urlparse / parse_qs / re.match do.   *)
(***************************************************************************)
EXTENDS Integers, Sequences, FiniteSets, TLC

VARIABLES
    hasApi,      \* YouTubeContentScraper.yt_service is not None
    driver,      \* AntiDetectionManager.driver: NoDriver is None, else a browser id
    live,        \* browser processes launched by the session and not yet quit
    staleQuit,   \* quit() has been called on a browser that was already quit
    fs,          \* the output directory of the video: file name -> size, Absent if missing
    calls,       \* page runs and direct scraper calls started so far
    pc,          \* position of the single thread of control
    iwRet,       \* the caller initialize_webdriver returns to
    url,         \* the reference given to the running operation
    want,        \* the three check boxes of content_scraping_page
    vid,         \* local video_id of the running scraper call
    hnd,         \* local variable `driver` of the caller of initialize_webdriver
    errors,      \* local list `errors` of download_video / download_audio
    pending,     \* outcome a try body has chosen while its finally clause runs
    trace,       \* events of the running scraper call, in order
    ret,         \* how the last scraper call ended
    page,        \* locals and output of content_scraping_page
    held,        \* browser handles a direct caller of initialize_webdriver keeps
    sample,      \* how the reference under test was built (identifier extraction only)
    captions,    \* answers of the caption service to the running get_transcript
    gt,          \* locals and result of the running get_transcript
    px           \* proxy state of the AntiDetectionManager and the last proxy option set

vars == <<hasApi, driver, live, staleQuit, fs, calls, pc, iwRet, url,
          want, vid, hnd, errors, pending, trace, ret, page, held, sample,
          captions, gt, px>>

-----------------------------------------------------------------------------
(* Bounds of the model *)

\* page runs and direct scraper calls per behaviour
MaxCalls == 1

\* browser handles a direct caller of initialize_webdriver keeps at a time
MaxHeld == 2

-----------------------------------------------------------------------------
(* Strings *)

Lower == {"a","b","c","d","e","f","g","h","i","j","k","l","m",
          "n","o","p","q","r","s","t","u","v","w","x","y","z"}
Upper == {"A","B","C","D","E","F","G","H","I","J","K","L","M",
          "N","O","P","Q","R","S","T","U","V","W","X","Y","Z"}
Digit == {"0","1","2","3","4","5","6","7","8","9"}

\* the character class [a-zA-Z0-9_-] of the pattern at line 338
IdChars == Lower \cup Upper \cup Digit \cup {"_", "-"}

\* the repetition count {11} of the pattern at line 338
IdLen == 11

\* p occurs in s at position i
OccursAt(p, s, i) ==
    /\ i >= 1
    /\ i + Len(p) - 1 <= Len(s)
    /\ SubSeq(s, i, i + Len(p) - 1) = p

\* str.find, 1-based; 0 when p does not occur in s
Find(p, s) ==
    LET hits == {i \in 1..Len(s) : OccursAt(p, s, i)}
    IN  IF hits = {} THEN 0 ELSE CHOOSE i \in hits : \A j \in hits : i <= j

\* the Python operator `p in s`
Contains(p, s) == Find(p, s) # 0

\* s[i:] with i 1-based
From(s, i) == SubSeq(s, i, Len(s))

\* s.split(p)[1] when p occurs in s: the text between the first occurrence of p
\* and the next one
SplitSecond(p, s) ==
    LET rest == From(s, Find(p, s) + Len(p))
        nxt  == Find(p, rest)
    IN  IF nxt = 0 THEN rest ELSE SubSeq(rest, 1, nxt - 1)

\* s.split(p)[0]
SplitFirst(p, s) ==
    LET nxt == Find(p, s) IN IF nxt = 0 THEN s ELSE SubSeq(s, 1, nxt - 1)

\* position of the first character of s that is in the set cs, Len(s)+1 if none
FirstOf(cs, s) ==
    LET hits == {i \in 1..Len(s) : s[i] \in cs}
    IN  IF hits = {} THEN Len(s) + 1 ELSE CHOOSE i \in hits : \A j \in hits : i <= j

-----------------------------------------------------------------------------
(* urllib.parse.urlparse and parse_qs, as far as _extract_video_id reads them *)

SchemeChars == Lower \cup Upper \cup Digit \cup {"+", "-", "."}

\* urlsplit: a scheme is the text before the first ':' when it is made of
\* scheme characters and starts with a letter
SchemeEnd(u) ==
    LET c == FirstOf({":"}, u)
    IN  IF /\ c <= Len(u)
           /\ c > 1
           /\ u[1] \in Lower \cup Upper
           /\ \A i \in 1..(c - 1) : u[i] \in SchemeChars
        THEN c ELSE 0

AfterScheme(u) == From(u, SchemeEnd(u) + 1)

HasNetloc(u) == OccursAt(<<"/", "/">>, AfterScheme(u), 1)

\* the text after "//" up to the first of / ? #
Netloc(u) ==
    IF HasNetloc(u)
    THEN LET r == From(AfterScheme(u), 3)
         IN  SubSeq(r, 1, FirstOf({"/", "?", "#"}, r) - 1)
    ELSE <<>>

AfterNetloc(u) ==
    IF HasNetloc(u)
    THEN LET r == From(AfterScheme(u), 3) IN From(r, FirstOf({"/", "?", "#"}, r))
    ELSE AfterScheme(u)

NoFragment(u) == SplitFirst(<<"#">>, AfterNetloc(u))

Path(u) == SplitFirst(<<"?">>, NoFragment(u))

Query(u) ==
    LET r == NoFragment(u)
        q == Find(<<"?">>, r)
    IN  IF q = 0 THEN <<>> ELSE From(r, q + 1)

\* the name=value fields of a query string, split at '&'
RECURSIVE Fields(_)
Fields(q) ==
    IF q = <<>> THEN <<>>
    ELSE LET a == Find(<<"&">>, q)
         IN  IF a = 0 THEN <<q>>
             ELSE <<SubSeq(q, 1, a - 1)>> \o Fields(From(q, a + 1))

\* parse_qs(query).get(name, [None])[0]: the value of the first field called
\* name that has a non-blank value (keep_blank_values is False); None is <<>>
\* here, which the callers' truth tests treat alike
RECURSIVE FirstValue(_, _)
FirstValue(name, fields) ==
    IF fields = <<>> THEN <<>>
    ELSE LET f  == Head(fields)
             eq == Find(<<"=">>, f)
         IN  IF /\ eq # 0
                /\ SubSeq(f, 1, eq - 1) = name
                /\ eq < Len(f)
             THEN From(f, eq + 1)
             ELSE FirstValue(name, Tail(fields))

QueryV(u) == FirstValue(<<"v">>, Fields(Query(u)))

\* re.match(r'^[a-zA-Z0-9_-]{11}$', url): '$' also matches before one final newline
MatchesBareId(u) ==
    \/ /\ Len(u) = IdLen
       /\ \A i \in 1..IdLen : u[i] \in IdChars
    \/ /\ Len(u) = IdLen + 1
       /\ u[IdLen + 1] = "\n"
       /\ \A i \in 1..IdLen : u[i] \in IdChars

YOUTUBE_COM == <<"y","o","u","t","u","b","e",".","c","o","m">>
YOUTU_BE    == <<"y","o","u","t","u",".","b","e">>
WATCH       == <<"/","w","a","t","c","h">>
SHORTS      == <<"/","s","h","o","r","t","s","/">>
LIVE        == <<"/","l","i","v","e","/">>

\* the value meaning "no identifier": None and '' both fail `if not video_id`
NoId == <<>>

\* YouTubeContentScraper._extract_video_id
ExtractVideoId(u) ==
    IF Contains(YOUTUBE_COM, Netloc(u)) /\ Contains(WATCH, Path(u)) THEN QueryV(u)
    ELSE IF Contains(YOUTUBE_COM, Netloc(u)) /\ Contains(SHORTS, Path(u))
         THEN SplitSecond(SHORTS, Path(u))
    ELSE IF Contains(YOUTUBE_COM, Netloc(u)) /\ Contains(LIVE, Path(u))
         THEN SplitFirst(<<"/">>, SplitSecond(LIVE, Path(u)))
    ELSE IF ~Contains(YOUTUBE_COM, Netloc(u)) /\ Contains(YOUTU_BE, Netloc(u))
         THEN From(Path(u), 2)
    ELSE IF MatchesBareId(u) THEN u
    ELSE NoId

-----------------------------------------------------------------------------
(* References handed to the scraper in the acquisition model *)

HTTPS   == <<"h","t","t","p","s",":","/","/">>
WWW     == <<"w","w","w",".">>
TOKEN   == <<"a","b","c","d","e","f","g","h","i","j","k">>
WatchV  == <<"/","w","a","t","c","h","?","v","=">>

\* "https://www.youtube.com/watch?v=abcdefghijk"
WatchUrl == HTTPS \o WWW \o YOUTUBE_COM \o WatchV \o TOKEN
\* "not a url"
NotAUrl == <<"n","o","t"," ","a"," ","u","r","l">>
\* "https://youtu.be/", whose path holds no identifier
EmptyShortLink == HTTPS \o YOUTU_BE \o <<"/">>

Refs == {WatchUrl, NotAUrl, EmptyShortLink}

-----------------------------------------------------------------------------
(* The output directory <download_path>/<video_id> *)

Absent == -1

\* the size a relay download has to exceed (line 635)
MinRelaySize == 1000000

Sizes == {0, MinRelaySize, MinRelaySize + 1}

IdMp4    == "id.mp4"      \* <video_id>.mp4, output_file of download_video
RelayMp4 == "relay.mp4"   \* a name chosen by the relay site
TitleMp4 == "title.mp4"   \* the name pytube gives a stream (<title>.mp4)
IdMp3    == "id.mp3"      \* <video_id>.mp3, mp3_path of download_audio
OtherMp3 == "other.mp3"   \* an mp3 under another name
TitleMp3 == "title.mp3"   \* audio_path.replace('.mp4', '.mp3')
TitleWebm == "title.webm" \* an audio stream that is not mp4

Mp4Files == {IdMp4, RelayMp4, TitleMp4}
Mp3Files == {IdMp3, OtherMp3, TitleMp3}
Files    == Mp4Files \cup Mp3Files \cup {TitleWebm}

NoPath == "none"

\* os.path.exists
Exists(f, name) == name \in DOMAIN f /\ f[name] # Absent

\* os.rename(src, dst) on a POSIX file system: dst is replaced
Rename(f, src, dst) ==
    IF src = dst THEN f ELSE [f EXCEPT ![dst] = f[src], ![src] = Absent]

-----------------------------------------------------------------------------
(* Values of the locals *)

NoDriver == 0

Browsers == 1..(MaxHeld + 3)

InUse == live \cup held \cup {driver, hnd}

\* the id of a browser process no variable refers to
FreshBrowser == CHOOSE b \in Browsers \ InUse : \A c \in Browsers \ InUse : b <= c

NoRet == [fn |-> "none", kind |-> "none", path |-> NoPath, size |-> Absent,
          err |-> "none", log |-> <<>>, hints |-> {}]

\* transcript_data: [] and None
EmptyTranscript == [kind |-> "empty", track |-> 0]
NoTranscript    == [kind |-> "unset", track |-> 0]

\* no metadata file written
NoMeta == [saved |-> FALSE, video_info |-> "none", video_path |-> NoPath,
           audio_path |-> NoPath, has_transcript |-> FALSE]

NoPage == [on |-> FALSE, done |-> FALSE, info |-> "none", vpath |-> NoPath,
           apath |-> NoPath, transcript |-> NoTranscript, invoked |-> {},
           raised |-> {}, msgs |-> {}, meta |-> NoMeta]

NoPending == [kind |-> "none", path |-> NoPath]

NoSample == [shape |-> "none", token |-> <<>>, suffix |-> "none"]

\* no get_transcript is running
NoCaptions == [default_ok |-> FALSE, list_ok |-> FALSE, tracks |-> <<>>,
               translate_ok |-> FALSE, translated_fetch_ok |-> FALSE]

\* loop index, other_transcript (0 while unbound), and the value returned
NoGt == [i |-> 1, other |-> 0, result |-> NoTranscript, raised |-> FALSE]

\* no proxy
NoProxy == "none"

\* no AntiDetectionManager built yet
NoPx == [built |-> FALSE, rotation |-> FALSE, file |-> "absent", lines |-> <<>>,
         proxies |-> <<>>, n |-> 0, answers |-> <<>>, current |-> NoProxy,
         picked |-> NoProxy, used |-> [by |-> "none", proxy |-> NoProxy]]

Init ==
    /\ hasApi \in BOOLEAN
    /\ driver = NoDriver
    /\ live = {}
    /\ staleQuit = FALSE
    /\ fs = [f \in Files |-> Absent]
    /\ calls = 0
    /\ pc = "idle"
    /\ iwRet = "none"
    /\ url = <<>>
    /\ want = [video |-> FALSE, audio |-> FALSE, transcript |-> FALSE]
    /\ vid = NoId
    /\ hnd = NoDriver
    /\ errors = <<>>
    /\ pending = NoPending
    /\ trace = <<>>
    /\ ret = NoRet
    /\ page = NoPage
    /\ held = {}
    /\ sample = NoSample
    /\ captions = NoCaptions
    /\ gt = NoGt
    /\ px = NoPx

browserVars == <<driver, live, staleQuit>>
callVars    == <<url, want, vid, errors, pending, trace, ret, page>>

-----------------------------------------------------------------------------
(* selenium: driver.quit().  undetected_chromedriver's quit() swallows the  *)
(* errors of a repeated call, so quit is total and idempotent.             *)

QuitEffect(b) ==
    /\ live' = live \ {b}
    /\ staleQuit' = (staleQuit \/ b \notin live)

-----------------------------------------------------------------------------
(* AntiDetectionManager.initialize_webdriver *)

\* initialize_webdriver without its lines 252-253: the handle of the previous
\* browser is overwritten by the launch while that browser keeps running
IwBeginKeepsOld ==
    /\ pc = "iw"
    /\ pc' = "iw_launch"
    /\ UNCHANGED <<px, captions, gt, hasApi, driver, live, staleQuit, fs, calls, iwRet, url, want,
                   vid, hnd, errors, pending, trace, ret, page, held, sample>>

\* lines 250-253: close the existing driver if one is set
IwBegin ==
    /\ pc = "iw"
    /\ IF driver # NoDriver
       THEN QuitEffect(driver) /\ trace' = Append(trace, "quit")
       ELSE UNCHANGED <<live, staleQuit, trace>>
    /\ pc' = "iw_launch"
    /\ UNCHANGED <<px, captions, gt, hasApi, driver, fs, calls, iwRet, url, want, vid, hnd, errors,
                   pending, ret, page, held, sample>>

\* lines 255-271: self.driver = uc.Chrome(options=options), which may raise
IwLaunch ==
    /\ pc = "iw_launch"
    /\ \E ok \in BOOLEAN :
         IF ok
         THEN /\ driver' = FreshBrowser
              /\ live' = live \cup {FreshBrowser}
              /\ trace' = Append(trace, "launch")
              /\ pc' = "iw_stealth"
         ELSE /\ pc' = "iw_except"
              /\ UNCHANGED <<driver, live, trace>>
    /\ UNCHANGED <<px, captions, gt, hasApi, staleQuit, fs, calls, iwRet, url, want, vid, hnd, errors,
                   pending, ret, page, held, sample>>

\* where initialize_webdriver hands control back
IwReturnPc(ok) ==
    CASE iwRet = "scrape" -> IF ok THEN "gs_body" ELSE "gs_finally"
      [] iwRet = "relay"  -> IF ok THEN "dv_relay" ELSE "dv_m2_failed"
      [] iwRet = "growth" -> IF ok THEN "gr_body" ELSE "gr_failed"
      [] iwRet = "direct" -> IF ok THEN "di_ok" ELSE "di_failed"

\* lines 273-283: the stealth script, the delay, return self.driver
IwStealth ==
    /\ pc = "iw_stealth"
    /\ \E o \in {"ok", "script_raises", "delay_raises"} :
         /\ trace' = IF o = "script_raises" THEN trace ELSE Append(trace, "delay")
         /\ IF o = "ok"
            THEN /\ hnd' = driver
                 /\ pc' = IwReturnPc(TRUE)
            ELSE /\ hnd' = hnd
                 /\ pc' = "iw_except"
    /\ UNCHANGED <<px, captions, gt, hasApi, driver, live, staleQuit, fs, calls, iwRet, url, want, vid,
                   errors, pending, ret, page, held, sample>>

\* lines 285-289: the handler quits self.driver when it is set, and re-raises
IwExcept ==
    /\ pc = "iw_except"
    /\ IF driver # NoDriver
       THEN QuitEffect(driver) /\ trace' = Append(trace, "quit")
       ELSE UNCHANGED <<live, staleQuit, trace>>
    /\ pc' = IwReturnPc(FALSE)
    /\ UNCHANGED <<px, captions, gt, hasApi, driver, fs, calls, iwRet, url, want, vid, hnd, errors,
                   pending, ret, page, held, sample>>

\* AntiDetectionManager.close_webdriver
CloseWebdriver ==
    /\ pc = "idle"
    /\ IF driver # NoDriver
       THEN QuitEffect(driver) /\ driver' = NoDriver
       ELSE UNCHANGED <<driver, live, staleQuit>>
    /\ UNCHANGED <<px, captions, gt, hasApi, fs, calls, pc, iwRet, callVars, hnd, held, sample>>

-----------------------------------------------------------------------------
(* The scraping branch of find_similar_channels / analyze_trending_keywords *)

\* lines 1497-1499 and 1607-1609: driver = self.anti_detection.initialize_webdriver()
GrowthStart ==
    /\ pc = "idle"
    /\ ~hasApi
    /\ iwRet' = "growth"
    /\ hnd' = NoDriver
    /\ trace' = <<>>
    /\ pc' = "iw"
    /\ UNCHANGED <<px, captions, gt, hasApi, browserVars, fs, calls, url, want, vid, errors, pending,
                   ret, page, held, sample>>

\* lines 1501-1553 and 1611-1641: the body, which may raise, and finally driver.quit()
GrowthBody ==
    /\ pc = "gr_body"
    /\ QuitEffect(hnd)
    /\ hnd' = NoDriver
    /\ trace' = <<>>
    /\ iwRet' = "none"
    /\ pc' = "idle"
    /\ UNCHANGED <<px, captions, gt, hasApi, driver, fs, calls, url, want, vid, errors, pending,
                   ret, page, held, sample>>

\* lines 1555-1556 and 1643-1644: initialize_webdriver raised; the error is logged
GrowthFailed ==
    /\ pc = "gr_failed"
    /\ trace' = <<>>
    /\ iwRet' = "none"
    /\ pc' = "idle"
    /\ UNCHANGED <<px, captions, gt, hasApi, browserVars, fs, calls, url, want, vid, hnd, errors,
                   pending, ret, page, held, sample>>

-----------------------------------------------------------------------------
(* How a scraper call hands control back: to content_scraping_page when the *)
(* page made the call, to the idle caller otherwise.                        *)

\* the texts str(e) of the errors the strategies meet
Texts == {"HTTP Error 403", "Sign in to confirm your age",
          "The uploader has not made this video available in your country"}

\* "age" in err.lower()  (line 696)
MentionsAge(text) == text = "Sign in to confirm your age"

\* "geo" in err.lower() or "your country" in err.lower()  (line 700)
MentionsGeo(text) ==
    text = "The uploader has not made this video available in your country"

\* an entry whose text is fixed by the program
Entry(m, why) == [m |-> m, why |-> why, text |-> "none"]

\* the entries a handler may append for an error raised outside the program
Raised(m, why) == {[m |-> m, why |-> why, text |-> tx] : tx \in Texts}

\* lines 695-701: the hints the text of the logged errors calls for
Hints(log) ==
    (IF \E i \in DOMAIN log : MentionsAge(log[i].text) THEN {"cookies"} ELSE {})
    \cup (IF \E i \in DOMAIN log : MentionsGeo(log[i].text) THEN {"vpn"} ELSE {})

Ret(fn, kind, path, size, err, log) ==
    [fn |-> fn, kind |-> kind, path |-> path, size |-> size, err |-> err, log |-> log,
     hints |-> {}]

\* lines 1829-1832 and 1952-1954: get_video_info inside the page's outer try
EndGvi(kind, info, err) ==
    /\ ret' = Ret("get_video_info", kind, NoPath, Absent, err, <<>>)
    /\ IF page.on
       THEN IF kind = "return"
            THEN /\ page' = [page EXCEPT !.info = info]
                 /\ pc' = "pg_video"
            ELSE /\ page' = [page EXCEPT !.msgs = @ \cup {"error_processing_video"},
                                         !.raised = @ \cup {"metadata"},
                                         !.done = TRUE]
                 /\ pc' = "pg_done"
       ELSE /\ page' = page
            /\ pc' = "call_done"

\* the page without the try of lines 1853-1868 around download_video: the
\* exception reaches the handler of line 1952 and the request ends there
EndDvUnguarded(kind, path, size, err) ==
    /\ ret' = Ret("download_video", kind, path, size, err, errors')
    /\ IF page.on
       THEN IF kind = "raise"
            THEN /\ page' = [page EXCEPT
                       !.raised = @ \cup {"video"},
                       !.msgs = @ \cup {"error_processing_video"},
                       !.done = TRUE]
                 /\ pc' = "pg_done"
            ELSE /\ page' = [page EXCEPT
                       !.vpath = path,
                       !.msgs  = @ \cup (IF size > 0 THEN {"video_downloaded"}
                                         ELSE {"video_downloaded", "video_may_be_empty"})]
                 /\ pc' = "pg_audio"
       ELSE /\ page' = page
            /\ pc' = "call_done"

\* lines 1853-1868: download_video inside its own try of the page
EndDv(kind, path, size, err) ==
    /\ ret' = [Ret("download_video", kind, path, size, err, errors') EXCEPT
                  !.hints = IF err = "all_methods_failed" THEN Hints(errors') ELSE {}]
    /\ IF page.on
       THEN /\ page' = [page EXCEPT
                  !.vpath = IF kind = "return" THEN path ELSE @,
                  !.raised = IF kind = "raise" THEN @ \cup {"video"} ELSE @,
                  !.msgs  = @ \cup (IF kind = "raise" THEN {"error_downloading_video"}
                                    ELSE IF size > 0 THEN {"video_downloaded"}
                                    ELSE {"video_downloaded", "video_may_be_empty"})]
            /\ pc' = "pg_audio"
       ELSE /\ page' = page
            /\ pc' = "call_done"

\* lines 1874-1889: download_audio inside its own try of the page
EndDa(kind, path, size, err) ==
    /\ ret' = Ret("download_audio", kind, path, size, err, errors')
    /\ IF page.on
       THEN /\ page' = [page EXCEPT
                  !.apath = IF kind = "return" THEN path ELSE @,
                  !.raised = IF kind = "raise" THEN @ \cup {"audio"} ELSE @,
                  !.msgs  = @ \cup (IF kind = "raise" THEN {"error_downloading_audio"}
                                    ELSE IF size > 0 THEN {"audio_downloaded"}
                                    ELSE {"audio_downloaded", "audio_may_be_empty"})]
            /\ pc' = "pg_transcript"
       ELSE /\ page' = page
            /\ pc' = "call_done"

-----------------------------------------------------------------------------
(* YouTubeContentScraper.get_video_info *)

\* lines 436-441 and 447-448
Gvi ==
    /\ pc = "gvi"
    /\ vid' = ExtractVideoId(url)
    /\ trace' = <<>>
    /\ IF ExtractVideoId(url) = NoId
       THEN EndGvi("raise", "none", "invalid_reference")
       ELSE /\ pc' = IF hasApi THEN "gvi_api" ELSE "gs"
            /\ UNCHANGED <<ret, page>>
    /\ UNCHANGED <<px, captions, gt, hasApi, browserVars, fs, calls, iwRet, url, want, hnd, errors,
                   pending, held, sample>>

\* get_video_info without the return of line 443: the record of the API is
\* dropped and the scraping lookup runs all the same
GviApiThenScrapes ==
    /\ pc = "gvi_api"
    /\ \E o \in {"api_ok", "api_zero_items", "api_error"} :
         trace' = trace \o <<"api", o>>
    /\ pc' = "gs"
    /\ UNCHANGED <<px, captions, gt, hasApi, browserVars, fs, calls, iwRet, url, want, vid,
                   hnd, errors, pending, ret, page, held, sample>>

\* lines 442-445 with get_video_info_api (343-377): the record, or any error,
\* "No video found" included, is caught and logged at 444
GviApi ==
    /\ pc = "gvi_api"
    /\ \E o \in {"api_ok", "api_zero_items", "api_error"} :
         /\ trace' = trace \o <<"api", o>>
         /\ IF o = "api_ok"
            THEN EndGvi("return", "api", "none")
            ELSE /\ pc' = "gs"
                 /\ UNCHANGED <<ret, page>>
    /\ UNCHANGED <<px, captions, gt, hasApi, browserVars, fs, calls, iwRet, url, want, vid, hnd, errors,
                   pending, held, sample>>

\* get_video_info_scraping, lines 381-384: driver = None, then initialize_webdriver
Gs ==
    /\ pc = "gs"
    /\ hnd' = NoDriver
    /\ pending' = NoPending
    /\ iwRet' = "scrape"
    /\ trace' = Append(trace, "scrape")
    /\ pc' = "iw"
    /\ UNCHANGED <<px, captions, gt, hasApi, browserVars, fs, calls, url, want, vid, errors, ret, page,
                   held, sample>>

\* lines 386-425: delay, driver.get, delay, parsing; any of it may raise
GsBody ==
    /\ pc = "gs_body"
    /\ \E o \in {"ok", "get_raises", "parse_raises"} :
         /\ trace' = trace \o (IF o = "get_raises" THEN <<"delay", "navigate">>
                               ELSE <<"delay", "navigate", "delay">>)
         /\ pending' = [kind |-> IF o = "ok" THEN "return" ELSE "raise", path |-> NoPath]
    /\ pc' = "gs_finally"
    /\ UNCHANGED <<px, captions, gt, hasApi, browserVars, fs, calls, iwRet, url, want, vid, hnd, errors,
                   ret, page, held, sample>>

\* get_video_info_scraping without the finally clause of lines 430-432
GsFinallyKeepsBrowser ==
    /\ pc = "gs_finally"
    /\ hnd' = NoDriver
    /\ pending' = NoPending
    /\ iwRet' = "none"
    /\ IF pending.kind = "return"
       THEN EndGvi("return", "scraped", "none")
       ELSE EndGvi("raise", "none", "scraping_error")
    /\ UNCHANGED <<px, captions, gt, hasApi, browserVars, fs, calls, url, want, vid, errors,
                   trace, held, sample>>

\* a scraping lookup whose failure surfaces the earlier error of the API
GsFinallyRaisesApiError ==
    /\ pc = "gs_finally"
    /\ IF hnd # NoDriver
       THEN QuitEffect(hnd) /\ trace' = Append(trace, "quit")
       ELSE UNCHANGED <<live, staleQuit, trace>>
    /\ hnd' = NoDriver
    /\ pending' = NoPending
    /\ iwRet' = "none"
    /\ IF pending.kind = "return"
       THEN EndGvi("return", "scraped", "none")
       ELSE IF \E i \in DOMAIN trace : trace[i] = "api_error"
       THEN EndGvi("raise", "none", "api_error")
       ELSE EndGvi("raise", "none", "scraping_error")
    /\ UNCHANGED <<px, captions, gt, hasApi, driver, fs, calls, url, want, vid, errors, held, sample>>

\* lines 427-432: re-raise, and finally quit the local driver when it is set
GsFinally ==
    /\ pc = "gs_finally"
    /\ IF hnd # NoDriver
       THEN QuitEffect(hnd) /\ trace' = Append(trace, "quit")
       ELSE UNCHANGED <<live, staleQuit, trace>>
    /\ hnd' = NoDriver
    /\ pending' = NoPending
    /\ iwRet' = "none"
    /\ IF pending.kind = "return"
       THEN EndGvi("return", "scraped", "none")
       ELSE EndGvi("raise", "none", "scraping_error")
    /\ UNCHANGED <<px, captions, gt, hasApi, driver, fs, calls, url, want, vid, errors, held, sample>>

-----------------------------------------------------------------------------
(* YouTubeContentScraper.get_transcript *)

\* caption tracks listed for one video, at most
MaxTracks == 2

Langs == {"en", "de", "fr"}

Track == [lang : Langs, fetch_ok : BOOLEAN]

TrackLists == UNION {[1..n -> Track] : n \in 0..MaxTracks}

\* lines 475-487: translate the fallback candidate, else fetch it untranslated;
\* a failure of that last fetch is caught at 489
AfterScan(tracks, other, translate_ok, translated_fetch_ok) ==
    IF other = 0 THEN EmptyTranscript
    ELSE IF translate_ok /\ translated_fetch_ok
         THEN [kind |-> "translated", track |-> other]
    ELSE IF tracks[other].fetch_ok THEN [kind |-> "original", track |-> other]
    ELSE EmptyTranscript

\* lines 465-473: the loop over the listed tracks
RECURSIVE Scan(_, _, _, _, _)
Scan(tracks, i, other, translate_ok, translated_fetch_ok) ==
    IF i > Len(tracks) THEN AfterScan(tracks, other, translate_ok, translated_fetch_ok)
    ELSE IF tracks[i].lang = "en"
         THEN IF tracks[i].fetch_ok THEN [kind |-> "en", track |-> i]
              ELSE Scan(tracks, i + 1, other, translate_ok, translated_fetch_ok)
    ELSE Scan(tracks, i + 1, i, translate_ok, translated_fetch_ok)

\* lines 452-501
TranscriptOf(default_ok, list_ok, tracks, translate_ok, translated_fetch_ok) ==
    IF default_ok THEN [kind |-> "default", track |-> 0]
    ELSE IF ~list_ok THEN EmptyTranscript
    ELSE Scan(tracks, 1, 0, translate_ok, translated_fetch_ok)

\* every result get_transcript can return, over the answers of the caption service
TranscriptOutcomes ==
    {TranscriptOf(default_ok, list_ok, tracks, translate_ok, translated_fetch_ok) :
        default_ok \in BOOLEAN, list_ok \in BOOLEAN, tracks \in TrackLists,
        translate_ok \in BOOLEAN, translated_fetch_ok \in BOOLEAN}

\* lines 1892-1924: the page extracts the id and calls get_transcript
Gt ==
    /\ pc = "gt"
    /\ vid' = ExtractVideoId(url)
    /\ \E t \in TranscriptOutcomes :
         /\ ret' = Ret("get_transcript", "return", t.kind, Absent, "none", <<>>)
         /\ page' = [page EXCEPT
               !.transcript = t,
               !.msgs = @ \cup (IF t.kind = "empty" THEN {"no_transcript"}
                                ELSE {"transcript_shown"})]
    /\ trace' = <<>>
    /\ pc' = "pg_meta"
    /\ UNCHANGED <<px, captions, gt, hasApi, browserVars, fs, calls, iwRet, url, want, hnd, errors,
                   pending, held, sample>>

-----------------------------------------------------------------------------
(* YouTubeContentScraper.download_video *)


\* download_video with line 520 moved above the check of lines 510-512: the
\* pacing delay is applied before the reference is examined
DvDelayFirst ==
    /\ pc = "dv"
    /\ vid' = ExtractVideoId(url)
    /\ errors' = <<>>
    /\ trace' = <<"delay">>
    /\ IF ExtractVideoId(url) = NoId
       THEN EndDv("raise", NoPath, Absent, "invalid_reference")
       ELSE /\ pc' = "dv_m1"
            /\ UNCHANGED <<ret, page>>
    /\ UNCHANGED <<px, captions, gt, hasApi, browserVars, fs, calls, iwRet, url, want, hnd, pending,
                   held, sample>>

\* lines 510-524: the id, the directory, the delay, errors = []
Dv ==
    /\ pc = "dv"
    /\ vid' = ExtractVideoId(url)
    /\ errors' = <<>>
    /\ IF ExtractVideoId(url) = NoId
       THEN /\ trace' = <<>>
            /\ EndDv("raise", NoPath, Absent, "invalid_reference")
       ELSE /\ trace' = <<"delay">>
            /\ pc' = "dv_m1"
            /\ UNCHANGED <<ret, page>>
    /\ UNCHANGED <<px, captions, gt, hasApi, browserVars, fs, calls, iwRet, url, want, hnd, pending,
                   held, sample>>

\* a chain that goes from method 1 straight to method 3
SkipRelay == "dv_m3"

\* what download_video runs after the handler of method 1 (586-589): method 2
AfterYtDlpHandler == "dv_m2"

\* lines 526-585, method 1: yt-dlp.  `wrote` is the size of the file the
\* extractor left at <id>.mp4, Absent when it wrote none.
DvM1 ==
    /\ pc = "dv_m1"
    /\ \E o \in {"raises", "no_info", "info"}, wrote \in Sizes \cup {Absent} :
         /\ o # "info" => wrote = Absent
         /\ fs' = IF wrote = Absent THEN fs ELSE [fs EXCEPT ![IdMp4] = wrote]
         /\ CASE o = "raises" ->
                   /\ \E en \in Raised(1, "yt-dlp method failed") : errors' = Append(errors, en)
                   /\ trace' = Append(trace, "m1")
                   /\ pc' = AfterYtDlpHandler
                   /\ UNCHANGED <<ret, page>>
              [] o = "no_info" ->
                   /\ errors' = errors
                   /\ trace' = Append(trace, "m1")
                   /\ pc' = AfterYtDlpHandler
                   /\ UNCHANGED <<ret, page>>
              [] o = "info" ->
                   IF Exists(fs', IdMp4)
                   THEN /\ errors' = errors
                        /\ trace' = trace \o <<"m1", "yield">>
                        /\ EndDv("return", IdMp4, fs'[IdMp4], "none")
                   ELSE /\ errors' = Append(errors, Entry(1, "yt-dlp method failed"))
                        /\ trace' = Append(trace, "m1")
                        /\ pc' = AfterYtDlpHandler
                        /\ UNCHANGED <<ret, page>>
    /\ UNCHANGED <<px, captions, gt, hasApi, browserVars, calls, iwRet, url, want, vid, hnd, pending,
                   held, sample>>

\* a chain that paces again before its second strategy
DvM2Paced ==
    /\ pc = "dv_m2"
    /\ trace' = trace \o <<"delay", "m2">>
    /\ hnd' = NoDriver
    /\ pending' = NoPending
    /\ iwRet' = "relay"
    /\ pc' = "iw"
    /\ UNCHANGED <<px, captions, gt, hasApi, browserVars, fs, calls, url, want, vid, errors, ret, page,
                   held, sample>>

\* lines 588-592, method 2: the relay; driver = initialize_webdriver()
DvM2 ==
    /\ pc = "dv_m2"
    /\ trace' = Append(trace, "m2")
    /\ hnd' = NoDriver
    /\ pending' = NoPending
    /\ iwRet' = "relay"
    /\ pc' = "iw"
    /\ UNCHANGED <<px, captions, gt, hasApi, browserVars, fs, calls, url, want, vid, errors, ret, page,
                   held, sample>>

\* a chain that gives up when method 2 has failed
StopAfterRelay == "dv_final"

\* a chain that tries the relay again when the relay has failed
RetryRelay == "dv_m2"

\* what download_video runs after the handler of method 2 (657-658): method 3
AfterRelayHandler == "dv_m3"

\* lines 653-655: initialize_webdriver raised
DvM2Failed ==
    /\ pc = "dv_m2_failed"
    /\ \E en \in Raised(2, "Selenium method failed") : errors' = Append(errors, en)
    /\ iwRet' = "none"
    /\ pc' = AfterRelayHandler
    /\ UNCHANGED <<px, captions, gt, hasApi, browserVars, fs, calls, url, want, vid, hnd, pending,
                   trace, ret, page, held, sample>>

\* files the listing at lines 634-635 keeps
RelayCandidates(f) == {g \in Mp4Files : Exists(f, g) /\ f[g] > MinRelaySize}

\* lines 594-646: the try body of the relay.  `got` is the file the browser
\* saved after the click, NoPath when it saved none.
DvRelay ==
    /\ pc = "dv_relay"
    /\ \E o \in {"setup_raises", "ui_error", "no_button", "clicked"},
          got \in {NoPath, IdMp4, RelayMp4}, size \in Sizes :
         /\ o # "clicked" => (got = NoPath /\ size = 0)
         /\ got = NoPath => size = 0
         /\ LET saved == IF got = NoPath THEN fs ELSE [fs EXCEPT ![got] = size]
            IN  CASE o = "setup_raises" ->
                       /\ pending' = [kind |-> "raise", path |-> NoPath]
                       /\ trace' = trace
                       /\ fs' = fs
                  [] o \in {"ui_error", "no_button"} ->
                       /\ pending' = [kind |-> "fall", path |-> NoPath]
                       /\ trace' = trace \o <<"navigate", "delay">>
                       /\ fs' = fs
                  [] o = "clicked" ->
                       /\ trace' = trace \o <<"navigate", "delay", "delay", "check">>
                       /\ IF RelayCandidates(saved) = {}
                          THEN /\ pending' = [kind |-> "fall", path |-> NoPath]
                               /\ fs' = saved
                          ELSE \E c \in RelayCandidates(saved) :
                                 /\ pending' = [kind |-> "return", path |-> IdMp4]
                                 /\ fs' = Rename(saved, c, IdMp4)
    /\ pc' = "dv_relay_finally"
    /\ UNCHANGED <<px, captions, gt, hasApi, browserVars, calls, iwRet, url, want, vid, hnd, errors,
                   ret, page, held, sample>>

\* a relay whose quit follows the guarded block instead of sitting in its
\* finally: the return of line 644 leaves with the browser open
DvRelayQuitAfterBlock ==
    /\ pc = "dv_relay_finally"
    /\ IF hnd # NoDriver /\ pending.kind # "return"
       THEN QuitEffect(hnd)
       ELSE UNCHANGED <<live, staleQuit>>
    /\ hnd' = NoDriver
    /\ pending' = NoPending
    /\ iwRet' = "none"
    /\ CASE pending.kind = "return" ->
              /\ errors' = errors
              /\ trace' = Append(trace, "yield")
              /\ EndDv("return", pending.path, fs[pending.path], "none")
         [] pending.kind = "raise" ->
              /\ errors' = Append(errors, Entry(2, "Selenium method failed"))
              /\ trace' = Append(trace, "quit")
              /\ pc' = AfterRelayHandler
              /\ UNCHANGED <<ret, page>>
         [] pending.kind = "fall" ->
              /\ errors' = errors
              /\ trace' = Append(trace, "quit")
              /\ pc' = AfterRelayHandler
              /\ UNCHANGED <<ret, page>>
    /\ UNCHANGED <<px, captions, gt, hasApi, driver, fs, calls, url, want, vid, held, sample>>

\* lines 648-655: finally driver.quit(); then the return, or the outer handler
DvRelayFinally ==
    /\ pc = "dv_relay_finally"
    /\ IF hnd # NoDriver THEN QuitEffect(hnd) ELSE UNCHANGED <<live, staleQuit>>
    /\ hnd' = NoDriver
    /\ pending' = NoPending
    /\ iwRet' = "none"
    /\ CASE pending.kind = "return" ->
              /\ errors' = errors
              /\ trace' = trace \o <<"quit", "yield">>
              /\ EndDv("return", pending.path, fs[pending.path], "none")
         [] pending.kind = "raise" ->
              /\ \E en \in Raised(2, "Selenium method failed") : errors' = Append(errors, en)
              /\ trace' = Append(trace, "quit")
              /\ pc' = AfterRelayHandler
              /\ UNCHANGED <<ret, page>>
         [] pending.kind = "fall" ->
              /\ errors' = errors
              /\ trace' = Append(trace, "quit")
              /\ pc' = AfterRelayHandler
              /\ UNCHANGED <<ret, page>>
    /\ UNCHANGED <<px, captions, gt, hasApi, driver, fs, calls, url, want, vid, held, sample>>

\* lines 658-689, method 3: pytube
DvM3 ==
    /\ pc = "dv_m3"
    /\ \E o \in {"raises", "stream_error", "no_stream", "downloaded"}, size \in Sizes :
         /\ o # "downloaded" => size = 0
         /\ fs' = IF o = "downloaded" THEN [fs EXCEPT ![TitleMp4] = size] ELSE fs
         /\ CASE o = "raises" ->
                   /\ \E en \in Raised(3, "Standard pytube method failed") : errors' = Append(errors, en)
                   /\ trace' = Append(trace, "m3")
                   /\ pc' = "dv_final"
                   /\ UNCHANGED <<ret, page>>
              [] o = "stream_error" ->
                   /\ \E en \in Raised(3, "Pytube stream error") : errors' = Append(errors, en)
                   /\ trace' = Append(trace, "m3")
                   /\ pc' = "dv_final"
                   /\ UNCHANGED <<ret, page>>
              [] o = "no_stream" \/ (o = "downloaded" /\ size = 0) ->
                   /\ errors' = errors
                   /\ trace' = Append(trace, "m3")
                   /\ pc' = "dv_final"
                   /\ UNCHANGED <<ret, page>>
              [] o = "downloaded" /\ size > 0 ->
                   /\ errors' = errors
                   /\ trace' = trace \o <<"m3", "yield">>
                   /\ EndDv("return", TitleMp4, size, "none")
    /\ UNCHANGED <<px, captions, gt, hasApi, browserVars, calls, iwRet, url, want, vid, hnd, pending,
                   held, sample>>

\* lines 691-705: raise unless output_file exists and is not empty
DvFinal ==
    /\ pc = "dv_final"
    /\ errors' = errors
    /\ trace' = Append(trace, "final")
    /\ IF ~Exists(fs, IdMp4) \/ fs[IdMp4] = 0
       THEN EndDv("raise", NoPath, Absent, "all_methods_failed")
       ELSE EndDv("return", IdMp4, fs[IdMp4], "none")
    /\ UNCHANGED <<px, captions, gt, hasApi, browserVars, fs, calls, iwRet, url, want, vid, hnd,
                   pending, held, sample>>

-----------------------------------------------------------------------------
(* YouTubeContentScraper.download_audio *)

AudioSizes == {0, MinRelaySize}

\* lines 716-730
Da ==
    /\ pc = "da"
    /\ vid' = ExtractVideoId(url)
    /\ errors' = <<>>
    /\ IF ExtractVideoId(url) = NoId
       THEN /\ trace' = <<>>
            /\ EndDa("raise", NoPath, Absent, "invalid_reference")
       ELSE /\ trace' = <<"delay">>
            /\ pc' = "da_m1"
            /\ UNCHANGED <<ret, page>>
    /\ UNCHANGED <<px, captions, gt, hasApi, browserVars, fs, calls, iwRet, url, want, hnd, pending,
                   held, sample>>

\* the mp3 files the scan at line 784 finds
Mp3Candidates(f) == {g \in Mp3Files : Exists(f, g)}

\* lines 733-794, method 1: yt-dlp with the mp3 post-processor.  `got` is the
\* file the tool left, NoPath when it left none.
DaM1 ==
    /\ pc = "da_m1"
    /\ \E o \in {"raises", "done"}, got \in {NoPath, IdMp3, OtherMp3},
          size \in AudioSizes :
         /\ o = "raises" => got = NoPath
         /\ got = NoPath => size = 0
         /\ LET saved == IF got = NoPath THEN fs ELSE [fs EXCEPT ![got] = size]
            IN  IF o = "raises"
                THEN /\ \E en \in Raised(1, "yt-dlp audio extraction failed") : errors' = Append(errors, en)
                     /\ trace' = Append(trace, "m1")
                     /\ fs' = fs
                     /\ pc' = "da_m2"
                     /\ UNCHANGED <<ret, page>>
                ELSE IF Exists(saved, IdMp3) /\ saved[IdMp3] > 0
                THEN /\ errors' = errors
                     /\ trace' = trace \o <<"m1", "yield">>
                     /\ fs' = saved
                     /\ EndDa("return", IdMp3, saved[IdMp3], "none")
                ELSE IF Mp3Candidates(saved) # {}
                THEN \E c \in Mp3Candidates(saved) :
                       /\ errors' = errors
                       /\ trace' = trace \o <<"m1", "yield">>
                       /\ fs' = Rename(saved, c, IdMp3)
                       /\ EndDa("return", IdMp3, saved[c], "none")
                ELSE /\ errors' = errors
                     /\ trace' = Append(trace, "m1")
                     /\ fs' = saved
                     /\ pc' = "da_m2"
                     /\ UNCHANGED <<ret, page>>
    /\ UNCHANGED <<px, captions, gt, hasApi, browserVars, calls, iwRet, url, want, vid, hnd, pending,
                   held, sample>>

\* a method 2 that treats a failed conversion as a failure of the strategy
DaM2ConversionRaises ==
    /\ pc = "da_m2"
    /\ \E o \in {"raises", "no_stream", "mp4", "webm"}, size \in AudioSizes,
          conv \in {"ok", "open_fails", "write_fails"}, written \in AudioSizes :
         /\ o \in {"raises", "no_stream"} => size = 0
         /\ (o # "mp4") => (conv = "ok" /\ written = 0)
         /\ (conv = "open_fails") => written = 0
         /\ CASE o \in {"raises", "no_stream"} ->
                   /\ errors' = Append(errors, Entry(2, "pytube audio download failed"))
                   /\ trace' = Append(trace, "m2")
                   /\ fs' = fs
                   /\ pc' = "da_final"
                   /\ UNCHANGED <<ret, page>>
              [] o = "webm" ->
                   /\ errors' = errors
                   /\ trace' = trace \o <<"m2", "yield">>
                   /\ fs' = [fs EXCEPT ![TitleWebm] = size]
                   /\ EndDa("return", TitleWebm, size, "none")
              [] o = "mp4" /\ conv = "ok" ->
                   /\ errors' = errors
                   /\ trace' = trace \o <<"m2", "convert", "yield">>
                   /\ fs' = [fs EXCEPT ![TitleMp3] = written, ![TitleMp4] = Absent]
                   /\ EndDa("return", TitleMp3, written, "none")
              [] o = "mp4" /\ conv # "ok" ->
                   /\ errors' = Append(errors, Entry(2, "pytube audio download failed"))
                   /\ trace' = trace \o <<"m2", "convert_failed">>
                   /\ fs' = [fs EXCEPT ![TitleMp4] = size, ![TitleMp3] = written]
                   /\ pc' = "da_final"
                   /\ UNCHANGED <<ret, page>>
    /\ UNCHANGED <<px, captions, gt, hasApi, browserVars, calls, iwRet, url, want, vid, hnd, pending,
                   held, sample>>

\* lines 797-842, method 2: pytube, then the conversion of an .mp4 stream to mp3
DaM2 ==
    /\ pc = "da_m2"
    /\ \E o \in {"raises", "no_stream", "mp4", "webm"}, size \in AudioSizes,
          conv \in {"ok", "open_fails", "write_fails"}, written \in AudioSizes :
         /\ o \in {"raises", "no_stream"} => size = 0
         /\ (o # "mp4") => (conv = "ok" /\ written = 0)
         /\ (conv = "open_fails") => written = 0
         /\ CASE o \in {"raises", "no_stream"} ->
                   /\ \E en \in (IF o = "raises"
                               THEN Raised(2, "pytube audio download failed")
                               ELSE {Entry(2, "pytube audio download failed")}) :
                        errors' = Append(errors, en)
                   /\ trace' = Append(trace, "m2")
                   /\ fs' = fs
                   /\ pc' = "da_final"
                   /\ UNCHANGED <<ret, page>>
              [] o = "webm" ->
                   /\ errors' = errors
                   /\ trace' = trace \o <<"m2", "yield">>
                   /\ fs' = [fs EXCEPT ![TitleWebm] = size]
                   /\ EndDa("return", TitleWebm, size, "none")
              [] o = "mp4" /\ conv = "ok" ->
                   /\ errors' = errors
                   /\ trace' = trace \o <<"m2", "convert", "yield">>
                   /\ fs' = [fs EXCEPT ![TitleMp3] = written, ![TitleMp4] = Absent]
                   /\ EndDa("return", TitleMp3, written, "none")
              [] o = "mp4" /\ conv = "open_fails" ->
                   /\ errors' = errors
                   /\ trace' = trace \o <<"m2", "convert_failed", "yield">>
                   /\ fs' = [fs EXCEPT ![TitleMp4] = size]
                   /\ EndDa("return", TitleMp4, size, "none")
              [] o = "mp4" /\ conv = "write_fails" ->
                   /\ errors' = errors
                   /\ trace' = trace \o <<"m2", "convert_failed", "yield">>
                   /\ fs' = [fs EXCEPT ![TitleMp4] = size, ![TitleMp3] = written]
                   /\ EndDa("return", TitleMp4, size, "none")
    /\ UNCHANGED <<px, captions, gt, hasApi, browserVars, calls, iwRet, url, want, vid, hnd, pending,
                   held, sample>>

\* lines 844-846
DaFinal ==
    /\ pc = "da_final"
    /\ errors' = errors
    /\ trace' = Append(trace, "final")
    /\ EndDa("raise", NoPath, Absent, "all_methods_failed")
    /\ UNCHANGED <<px, captions, gt, hasApi, browserVars, fs, calls, iwRet, url, want, vid, hnd,
                   pending, held, sample>>

-----------------------------------------------------------------------------
(* YouTubeContentScraperApp.content_scraping_page, after "Process Video" *)

Wants == [video : BOOLEAN, audio : BOOLEAN, transcript : BOOLEAN]

\* lines 1827-1832: the button, a non-empty URL, get_video_info
PageStart ==
    /\ pc = "idle"
    /\ calls < MaxCalls
    /\ calls' = calls + 1
    /\ \E u \in Refs, w \in Wants :
         /\ url' = u
         /\ want' = w
    /\ page' = [NoPage EXCEPT !.on = TRUE, !.invoked = {"metadata"}]
    /\ pc' = "gvi"
    /\ UNCHANGED <<px, captions, gt, hasApi, browserVars, fs, iwRet, vid, hnd, errors, pending, trace,
                   ret, held, sample>>

\* lines 1849-1854
PgVideo ==
    /\ pc = "pg_video"
    /\ IF want.video
       THEN /\ page' = [page EXCEPT !.invoked = @ \cup {"video"}]
            /\ pc' = "dv"
       ELSE /\ page' = page
            /\ pc' = "pg_audio"
    /\ vid' = NoId
    /\ errors' = <<>>
    /\ trace' = <<>>
    /\ ret' = NoRet
    /\ UNCHANGED <<px, captions, gt, hasApi, browserVars, fs, calls, iwRet, url, want, hnd, pending,
                   held, sample>>

\* lines 1870-1875; the locals of the call that has returned are gone
PgAudio ==
    /\ pc = "pg_audio"
    /\ IF want.audio
       THEN /\ page' = [page EXCEPT !.invoked = @ \cup {"audio"}]
            /\ pc' = "da"
       ELSE /\ page' = page
            /\ pc' = "pg_transcript"
    /\ vid' = NoId
    /\ errors' = <<>>
    /\ trace' = <<>>
    /\ ret' = NoRet
    /\ UNCHANGED <<px, captions, gt, hasApi, browserVars, fs, calls, iwRet, url, want, hnd, pending,
                   held, sample>>

\* lines 1891-1896
PgTranscript ==
    /\ pc = "pg_transcript"
    /\ IF want.transcript
       THEN /\ page' = [page EXCEPT !.invoked = @ \cup {"transcript"}]
            /\ pc' = "gt"
       ELSE /\ page' = page
            /\ pc' = "pg_meta"
    /\ vid' = NoId
    /\ errors' = <<>>
    /\ trace' = <<>>
    /\ ret' = NoRet
    /\ UNCHANGED <<px, captions, gt, hasApi, browserVars, fs, calls, iwRet, url, want, hnd, pending,
                   held, sample>>

\* bool(transcript_data and len(transcript_data) > 0), line 1940
HasTranscript(t) == t.kind \notin {"unset", "empty"}

\* `p if p and os.path.exists(p) else None`, lines 1938-1939
PathOrNone(f, p) == IF p # NoPath /\ Exists(f, p) THEN p ELSE NoPath

\* lines 1936-1942
Metadata(pg, f) ==
    [saved          |-> TRUE,
     video_info     |-> pg.info,
     video_path     |-> PathOrNone(f, pg.vpath),
     audio_path     |-> PathOrNone(f, pg.apath),
     has_transcript |-> HasTranscript(pg.transcript)]

\* lines 1926-1950: the metadata record is written when video_info is set
PgMeta ==
    /\ pc = "pg_meta"
    /\ page' = [page EXCEPT
          !.meta = IF page.info # "none" THEN Metadata(page, fs) ELSE @,
          !.msgs = IF page.info # "none" THEN @ \cup {"metadata_saved"} ELSE @,
          !.done = TRUE]
    /\ pc' = "pg_done"
    /\ vid' = NoId
    /\ errors' = <<>>
    /\ trace' = <<>>
    /\ ret' = NoRet
    /\ UNCHANGED <<px, captions, gt, hasApi, browserVars, fs, calls, iwRet, url, want, hnd, pending,
                   held, sample>>

-----------------------------------------------------------------------------
(* A caller that uses the scraper directly *)

DirectCall ==
    /\ pc = "idle"
    /\ calls < MaxCalls
    /\ calls' = calls + 1
    /\ \E u \in Refs, fn \in {"gvi", "dv", "da"} :
         /\ url' = u
         /\ pc' = fn
    /\ UNCHANGED <<px, captions, gt, hasApi, browserVars, fs, iwRet, want, vid, hnd, errors, pending,
                   trace, ret, page, held, sample>>

\* the operation has returned to its caller: its locals are gone
Return ==
    /\ pc \in {"pg_done", "call_done"}
    /\ pc' = "idle"
    /\ url' = <<>>
    /\ want' = [video |-> FALSE, audio |-> FALSE, transcript |-> FALSE]
    /\ vid' = NoId
    /\ errors' = <<>>
    /\ pending' = NoPending
    /\ trace' = <<>>
    /\ ret' = NoRet
    /\ page' = NoPage
    /\ UNCHANGED <<px, captions, gt, hasApi, browserVars, fs, calls, iwRet, hnd, held, sample>>

-----------------------------------------------------------------------------
(* The acquisition model *)

Next ==
    \/ PageStart \/ PgVideo \/ PgAudio \/ PgTranscript \/ PgMeta
    \/ DirectCall \/ Return
    \/ Gvi \/ GviApi \/ Gs \/ GsBody \/ GsFinally
    \/ Gt
    \/ Dv \/ DvM1 \/ DvM2 \/ DvM2Failed \/ DvRelay \/ DvRelayFinally \/ DvM3 \/ DvFinal
    \/ Da \/ DaM1 \/ DaM2 \/ DaFinal
    \/ IwBegin \/ IwLaunch \/ IwStealth \/ IwExcept \/ CloseWebdriver
    \/ GrowthStart \/ GrowthBody \/ GrowthFailed

Spec == Init /\ [][Next]_vars

-----------------------------------------------------------------------------
(* The session used on its own: a caller of AntiDetectionManager that calls  *)
(* initialize_webdriver, keeps the handles it is given, quits any of them    *)
(* when it likes, and calls close_webdriver.                                 *)

\* a call of initialize_webdriver (248)
DirectInit ==
    /\ pc = "idle"
    /\ Cardinality(held) < MaxHeld
    /\ iwRet' = "direct"
    /\ hnd' = NoDriver
    /\ trace' = <<>>
    /\ pc' = "iw"
    /\ UNCHANGED <<px, captions, gt, hasApi, browserVars, fs, calls, url, want, vid, errors, pending,
                   ret, page, held, sample>>

\* return self.driver (283): the caller keeps the handle
DirectInitOk ==
    /\ pc = "di_ok"
    /\ held' = held \cup {hnd}
    /\ hnd' = NoDriver
    /\ iwRet' = "none"
    /\ pc' = "idle"
    /\ UNCHANGED <<px, captions, gt, hasApi, browserVars, fs, calls, url, want, vid, errors, pending,
                   trace, ret, page, sample>>

\* raise (289): the caller has no handle
DirectInitFailed ==
    /\ pc = "di_failed"
    /\ iwRet' = "none"
    /\ pc' = "idle"
    /\ UNCHANGED <<px, captions, gt, hasApi, browserVars, fs, calls, url, want, vid, hnd, errors,
                   pending, trace, ret, page, held, sample>>

\* driver.quit() on a handle the caller holds, as at 432, 651, 1553, 1641;
\* the caller may keep the handle or drop it
DirectQuit ==
    /\ pc = "idle"
    /\ \E b \in held, keep \in BOOLEAN :
         /\ QuitEffect(b)
         /\ held' = IF keep THEN held ELSE held \ {b}
    /\ UNCHANGED <<px, captions, gt, hasApi, driver, fs, calls, pc, iwRet, url, want, vid, hnd, errors,
                   pending, trace, ret, page, sample>>

NextSession ==
    \/ DirectInit \/ DirectInitOk \/ DirectInitFailed \/ DirectQuit
    \/ IwBegin \/ IwLaunch \/ IwStealth \/ IwExcept \/ CloseWebdriver
    \/ GrowthStart \/ GrowthBody \/ GrowthFailed

SpecSession == Init /\ [][NextSession]_vars

-----------------------------------------------------------------------------
(* Identifier extraction on its own: references built from a token in each  *)
(* of the shapes the scraper is given.                                      *)

Tokens == { TOKEN,
            <<"d","Q","w","4","w","9","W","g","X","c","Q">>,
            <<"-","_","-","_","-","_","-","_","-","_","-">>,
            <<"0","1","2","3","4","5","6","7","8","9","v">>,
            <<"w","a","t","c","h","-","l","i","v","e","Z">> }

\* strings over the same alphabet that are not 11 characters long
OddTokens == { <<"a","b","c">>,
               <<"a","b","c","d","e","f","g","h","i","j","k","l">> }

Shapes == {"watch", "shorts", "live", "short_link", "bare"}

\* what follows the token: nothing, a path segment, a query string, or (after
\* watch?v=T) one more query parameter; "param_first" puts a parameter before v
Suffixes(shape) ==
    CASE shape = "watch" -> {"none", "param", "param_first"}
      [] shape = "bare"  -> {"none"}
      [] OTHER           -> {"none", "segment", "query"}

Samples == {[shape |-> sh, token |-> t, suffix |-> sx] :
               sh \in Shapes, t \in Tokens \cup OddTokens, sx \in {"none", "param", "param_first",
                                                    "segment", "query"}}

ValidSamples == {x \in Samples : x.suffix \in Suffixes(x.shape)}

Segment  == <<"/","x">>
QueryStr == <<"?","t","=","1">>
Param    == <<"&","t","=","1">>

Tail_(sx) ==
    CASE sx = "segment" -> Segment
      [] sx = "query"   -> QueryStr
      [] sx = "param"   -> Param
      [] OTHER          -> <<>>

\* the reference a sample stands for
BuildRef(x) ==
    CASE x.shape = "watch" ->
           IF x.suffix = "param_first"
           THEN HTTPS \o WWW \o YOUTUBE_COM \o WATCH \o <<"?","t","=","1","&","v","=">>
                \o x.token
           ELSE HTTPS \o WWW \o YOUTUBE_COM \o WatchV \o x.token \o Tail_(x.suffix)
      [] x.shape = "shorts" ->
           HTTPS \o WWW \o YOUTUBE_COM \o SHORTS \o x.token \o Tail_(x.suffix)
      [] x.shape = "live" ->
           HTTPS \o WWW \o YOUTUBE_COM \o LIVE \o x.token \o Tail_(x.suffix)
      [] x.shape = "short_link" ->
           HTTPS \o YOUTU_BE \o <<"/">> \o x.token \o Tail_(x.suffix)
      [] x.shape = "bare" -> x.token

XPick ==
    /\ pc \in {"idle", "x_done"}
    /\ \E x \in ValidSamples :
         /\ sample' = x
         /\ url' = BuildRef(x)
    /\ vid' = NoId
    /\ pc' = "x_ready"
    /\ UNCHANGED <<px, captions, gt, hasApi, browserVars, fs, calls, iwRet, want, hnd, errors, pending,
                   trace, ret, page, held>>

\* video_id = self._extract_video_id(video_url), as at 436, 510, 716, 1895
XExtract ==
    /\ pc = "x_ready"
    /\ vid' = ExtractVideoId(url)
    /\ pc' = "x_done"
    /\ UNCHANGED <<px, captions, gt, hasApi, browserVars, fs, calls, iwRet, url, want, hnd, errors,
                   pending, trace, ret, page, held, sample>>

NextExtract == XPick \/ XExtract

SpecExtract == Init /\ [][NextExtract]_vars

-----------------------------------------------------------------------------
(* get_transcript step by step, over every answer of the caption service    *)

Captions == [default_ok : BOOLEAN, list_ok : BOOLEAN, tracks : TrackLists,
             translate_ok : BOOLEAN, translated_fetch_ok : BOOLEAN]

\* a call of get_transcript begins
TPick ==
    /\ pc = "idle"
    /\ captions' \in Captions
    /\ gt' = NoGt
    /\ trace' = <<>>
    /\ ret' = NoRet
    /\ pc' = "t_default"
    /\ UNCHANGED <<px, hasApi, browserVars, fs, calls, iwRet, url, want, vid, hnd, errors,
                   pending, page, held, sample>>

\* `return <value>` of get_transcript
EndGt(r) ==
    /\ gt' = [gt EXCEPT !.result = r]
    /\ ret' = Ret("get_transcript", "return", r.kind, Absent, "none", <<>>)
    /\ pc' = "t_done"

\* lines 453-457: the request in the default language
TDefault ==
    /\ pc = "t_default"
    /\ trace' = Append(trace, "default")
    /\ IF captions.default_ok
       THEN EndGt([kind |-> "default", track |-> 0])
       ELSE pc' = "t_list" /\ UNCHANGED <<gt, ret>>
    /\ UNCHANGED <<px, captions, hasApi, browserVars, fs, calls, iwRet, url, want, vid,
                   hnd, errors, pending, page, held, sample>>

\* where the handler of line 489 leaves the call: at the return [] of line 497
OnListError == "t_empty"

\* lines 461-462: the enumeration of the tracks
TList ==
    /\ pc = "t_list"
    /\ trace' = Append(trace, "list")
    /\ pc' = IF captions.list_ok THEN "t_scan" ELSE OnListError
    /\ UNCHANGED <<px, captions, gt, hasApi, browserVars, fs, calls, iwRet, url, want, vid,
                   hnd, errors, pending, ret, page, held, sample>>

\* the loop without the test of line 467: every track is kept as the candidate
TScanAnyLanguage ==
    /\ pc = "t_scan"
    /\ IF gt.i > Len(captions.tracks)
       THEN pc' = "t_fallback" /\ UNCHANGED gt
       ELSE pc' = "t_scan" /\ gt' = [gt EXCEPT !.i = @ + 1, !.other = gt.i]
    /\ UNCHANGED <<px, captions, hasApi, browserVars, fs, calls, iwRet, url, want, vid,
                   hnd, errors, pending, trace, ret, page, held, sample>>

\* a loop that keeps the first track in another language as the candidate
TScanKeepsFirst ==
    /\ pc = "t_scan"
    /\ IF gt.i > Len(captions.tracks)
       THEN /\ pc' = "t_fallback"
            /\ UNCHANGED <<gt, trace, ret>>
       ELSE IF captions.tracks[gt.i].lang = "en"
       THEN /\ trace' = Append(trace, "fetch_en")
            /\ IF captions.tracks[gt.i].fetch_ok
               THEN EndGt([kind |-> "en", track |-> gt.i])
               ELSE /\ gt' = [gt EXCEPT !.i = @ + 1]
                    /\ pc' = "t_scan"
                    /\ ret' = ret
       ELSE /\ gt' = [gt EXCEPT !.i = @ + 1,
                                !.other = IF gt.other = 0 THEN gt.i ELSE gt.other]
            /\ pc' = "t_scan"
            /\ UNCHANGED <<trace, ret>>
    /\ UNCHANGED <<px, captions, hasApi, browserVars, fs, calls, iwRet, url, want, vid,
                   hnd, errors, pending, page, held, sample>>

\* lines 465-473: one turn of the loop over the tracks; a failing fetch of
\* an English track is logged at 472-473 and the loop goes on
TScan ==
    /\ pc = "t_scan"
    /\ IF gt.i > Len(captions.tracks)
       THEN /\ pc' = "t_fallback"
            /\ UNCHANGED <<gt, trace, ret>>
       ELSE IF captions.tracks[gt.i].lang = "en"
       THEN /\ trace' = Append(trace, "fetch_en")
            /\ IF captions.tracks[gt.i].fetch_ok
               THEN EndGt([kind |-> "en", track |-> gt.i])
               ELSE /\ gt' = [gt EXCEPT !.i = @ + 1]
                    /\ pc' = "t_scan"
                    /\ ret' = ret
       ELSE /\ gt' = [gt EXCEPT !.i = @ + 1, !.other = gt.i]
            /\ pc' = "t_scan"
            /\ UNCHANGED <<trace, ret>>
    /\ UNCHANGED <<px, captions, hasApi, browserVars, fs, calls, iwRet, url, want, vid,
                   hnd, errors, pending, page, held, sample>>

\* a handler that gives up instead of fetching the candidate untranslated
GiveUp == "t_empty"

\* where the handler of line 485 goes on: to the fetch of line 487
OnTranslationError == "t_original"

\* lines 475-479 without the translation: the candidate is fetched as it is
TFallbackUntranslated ==
    /\ pc = "t_fallback"
    /\ pc' = IF gt.other = 0 THEN "t_empty" ELSE "t_original"
    /\ UNCHANGED <<px, captions, gt, hasApi, browserVars, fs, calls, iwRet, url, want, vid,
                   hnd, errors, pending, trace, ret, page, held, sample>>

\* lines 475-484: the candidate, when one is bound, is translated to English
\* and the translation fetched (the candidate is never an English track, so
\* line 484 is not reached)
TFallback ==
    /\ pc = "t_fallback"
    /\ IF gt.other = 0
       THEN /\ pc' = "t_empty"
            /\ UNCHANGED <<gt, trace, ret>>
       ELSE IF ~captions.translate_ok
       THEN /\ trace' = Append(trace, "translate")
            /\ pc' = OnTranslationError
            /\ UNCHANGED <<gt, ret>>
       ELSE IF ~captions.translated_fetch_ok
       THEN /\ trace' = trace \o <<"translate", "fetch_translated">>
            /\ pc' = OnTranslationError
            /\ UNCHANGED <<gt, ret>>
       ELSE /\ trace' = trace \o <<"translate", "fetch_translated">>
            /\ EndGt([kind |-> "translated", track |-> gt.other])
    /\ UNCHANGED <<px, captions, hasApi, browserVars, fs, calls, iwRet, url, want, vid,
                   hnd, errors, pending, page, held, sample>>

\* an exception that no handler of get_transcript catches
Uncaught == "t_uncaught"

\* where an exception raised inside the handler of 485-487 is caught: by the
\* handler of line 489, which leads to the return [] of line 497
OnOriginalError == "t_empty"

\* lines 485-487: the handler of a failed translation returns the candidate's
\* own transcript
TOriginal ==
    /\ pc = "t_original"
    /\ trace' = Append(trace, "fetch_original")
    /\ IF captions.tracks[gt.other].fetch_ok
       THEN EndGt([kind |-> "original", track |-> gt.other])
       ELSE pc' = OnOriginalError /\ UNCHANGED <<gt, ret>>
    /\ UNCHANGED <<px, captions, hasApi, browserVars, fs, calls, iwRet, url, want, vid,
                   hnd, errors, pending, page, held, sample>>

\* lines 496-497: return []; an exception that escaped every handler leaves
\* the call instead
TEmpty ==
    /\ pc \in {"t_empty", "t_uncaught"}
    /\ IF pc = "t_empty"
       THEN EndGt(EmptyTranscript)
       ELSE /\ gt' = [gt EXCEPT !.raised = TRUE]
            /\ ret' = Ret("get_transcript", "raise", NoPath, Absent, "transcript_error", <<>>)
            /\ pc' = "t_done"
    /\ UNCHANGED <<px, captions, hasApi, browserVars, fs, calls, iwRet, url, want, vid,
                   hnd, errors, pending, trace, page, held, sample>>

\* the caller has the value; the locals of the call are gone
TReturn ==
    /\ pc = "t_done"
    /\ captions' = NoCaptions
    /\ gt' = NoGt
    /\ trace' = <<>>
    /\ ret' = NoRet
    /\ pc' = "idle"
    /\ UNCHANGED <<px, hasApi, browserVars, fs, calls, iwRet, url, want, vid, hnd, errors,
                   pending, page, held, sample>>

NextTranscript ==
    \/ TPick \/ TDefault \/ TList \/ TScan \/ TFallback \/ TOriginal \/ TEmpty
    \/ TReturn

SpecTranscript == Init /\ [][NextTranscript]_vars

-----------------------------------------------------------------------------
(* The proxy pool of an AntiDetectionManager and the proxy options it feeds *)

\* for _ in range(5), line 184
MaxFetches == 5

\* entries in the proxy list file, at most
MaxLines == 2

ProxyNames == {"10.0.0.1:8080", "10.0.0.2:8080"}

\* the stripped non-blank lines of the list file (line 180)
Lines == UNION {[1..k -> ProxyNames] : k \in 0..MaxLines}

\* what FreeProxy(rand=True).get() does: raises, gives nothing, or a proxy
FetchAnswers == {"raises", "nothing"} \cup ProxyNames

Range(q) == {q[i] : i \in DOMAIN q}

\* lines 166-169 and 176-183: a manager is constructed; _load_proxies reads
\* the list file when it exists.  An error while reading is caught at 193 and
\* the empty list returned.
PNew ==
    /\ pc = "idle"
    /\ ~px.built
    /\ \E rot \in BOOLEAN, f \in {"absent", "unreadable", "read"}, ls \in Lines :
         /\ f # "read" => ls = <<>>
         /\ px' = [NoPx EXCEPT !.rotation = rot, !.file = f, !.lines = ls,
                               !.proxies = ls]
         /\ pc' = IF f # "unreadable" /\ ls = <<>> /\ rot THEN "p_fetch"
                  ELSE "p_loaded"
    /\ UNCHANGED <<captions, gt, hasApi, browserVars, fs, calls, iwRet, url, want, vid,
                   hnd, errors, pending, trace, ret, page, held, sample>>

\* a loop that ends at the first fetch that raises
StopFetching == "p_loaded"

\* lines 189-190: the handler logs a warning and the loop goes on
OnFetchError == "p_fetch"

\* lines 184-190: one turn of the loop over the provider
PFetch ==
    /\ pc = "p_fetch"
    /\ \E a \in FetchAnswers :
         /\ px' = [px EXCEPT !.n = @ + 1,
                             !.answers = Append(@, a),
                             !.proxies = IF a \in ProxyNames THEN Append(@, a) ELSE @]
         /\ pc' = IF px.n + 1 = MaxFetches THEN "p_loaded"
                  ELSE IF a = "raises" THEN OnFetchError
                  ELSE "p_fetch"
    /\ UNCHANGED <<captions, gt, hasApi, browserVars, fs, calls, iwRet, url, want, vid,
                   hnd, errors, pending, trace, ret, page, held, sample>>

\* lines 196 and 170-172: return proxies; self.proxies, current_proxy = None
PLoaded ==
    /\ pc = "p_loaded"
    /\ px' = [px EXCEPT !.built = TRUE, !.current = NoProxy, !.n = 0,
                        !.answers = <<>>]
    /\ pc' = "idle"
    /\ UNCHANGED <<captions, gt, hasApi, browserVars, fs, calls, iwRet, url, want, vid,
                   hnd, errors, pending, trace, ret, page, held, sample>>

\* lines 206-212, rotate_proxy: None without a pool or without rotation, else
\* a member of the pool, which becomes current_proxy
PRotate ==
    /\ pc = "idle"
    /\ px.built
    /\ IF px.proxies = <<>> \/ ~px.rotation
       THEN px' = [px EXCEPT !.picked = NoProxy]
       ELSE \E c \in Range(px.proxies) :
              px' = [px EXCEPT !.current = c, !.picked = c]
    /\ UNCHANGED <<captions, gt, hasApi, browserVars, fs, calls, pc, iwRet, url, want,
                   vid, hnd, errors, pending, trace, ret, page, held, sample>>

\* `if config["proxy_rotation"] and current_proxy:` at 267-268, 557-558 and
\* 766-767: the proxy handed on, NoProxy when the option is left out
ProxyOption(rotation, current) ==
    IF rotation /\ current # NoProxy THEN current ELSE NoProxy

\* the consumers of current_proxy: the browser options of initialize_webdriver
\* (266-268), ydl_opts of download_video (556-558) and of download_audio (765-767)
Consumers == {"initialize_webdriver", "download_video", "download_audio"}

POptions ==
    /\ pc = "idle"
    /\ px.built
    /\ \E by \in Consumers :
         px' = [px EXCEPT !.used = [by |-> by,
                                    proxy |-> ProxyOption(px.rotation, px.current)]]
    /\ UNCHANGED <<captions, gt, hasApi, browserVars, fs, calls, pc, iwRet, url, want,
                   vid, hnd, errors, pending, trace, ret, page, held, sample>>

\* line 2576: the settings page replaces the manager by a new one
PDiscard ==
    /\ pc = "idle"
    /\ px.built
    /\ px' = NoPx
    /\ UNCHANGED <<captions, gt, hasApi, browserVars, fs, calls, pc, iwRet, url, want,
                   vid, hnd, errors, pending, trace, ret, page, held, sample>>

NextProxy == PNew \/ PFetch \/ PLoaded \/ PRotate \/ POptions \/ PDiscard

SpecProxy == Init /\ [][NextProxy]_vars

-----------------------------------------------------------------------------
(* The calls of the scraper together: the page and the direct calls, with   *)
(* get_transcript taken step by step                                        *)

\* get_transcript called on a scraper that has made no other call: the call
\* reads and writes none of the browser, file and page state
TFirstCall ==
    /\ calls = 0
    /\ driver = NoDriver
    /\ held = {}
    /\ TPick

NextCalls ==
    \/ Next
    \/ TFirstCall \/ TDefault \/ TList \/ TScan \/ TFallback \/ TOriginal \/ TEmpty
    \/ TReturn

SpecCalls == Init /\ [][NextCalls]_vars

(***************************************************************************)
(* Properties                                                              *)
(***************************************************************************)

\* the strategy starts recorded in the events of a call
StrategyStarts == {"m1", "m2", "m3"}

Started(tr) == SelectSeq(tr, LAMBDA e : e \in StrategyStarts)

Has(tr, e) == \E i \in DOMAIN tr : tr[i] = e

IsPrefix(a, b) == Len(a) <= Len(b) /\ SubSeq(b, 1, Len(a)) = a

VideoChain == <<"m1", "m2", "m3">>

AudioChain == <<"m1", "m2">>

InitPcs == {"iw", "iw_launch", "iw_stealth", "iw_except"}

\* a download_video call is running or has just ended
InDv ==
    \/ pc \in {"dv_m1", "dv_m2", "dv_m2_failed", "dv_relay", "dv_relay_finally",
               "dv_m3", "dv_final"}
    \/ pc \in InitPcs /\ iwRet = "relay"
    \/ ret.fn = "download_video"

\* a download_audio call is running or has just ended
InDa == pc \in {"da_m1", "da_m2", "da_final"} \/ ret.fn = "download_audio"

\* a media call has ended, and not on an invalid reference
MediaEnded ==
    /\ ret.fn \in {"download_video", "download_audio"}
    /\ ret.err # "invalid_reference"

\* C1: an AntiDetectionManager never has more than one live browser; when
\* initialize_webdriver launches, the browser it held before is already quit,
\* and after a successful initialization the live browser is the new one
C1_AtMostOneLiveBrowser ==
    /\ Cardinality(live) <= 1
    /\ pc = "iw_launch" => live = {}
    /\ pc \in {"di_ok", "gr_body", "gs_body", "dv_relay"} => live = {driver}

\* a second successful initialization whose first browser was still running
C1_Witness ==
    /\ pc = "di_ok"
    /\ held # {}
    /\ ~staleQuit
    /\ Has(trace, "quit")
    /\ live = {driver}

\* C2: download_video starts its strategies in the order yt-dlp, relay,
\* pytube and download_audio in the order yt-dlp, pytube, each at most once
\* and the next only when the one before has ended without a file; a strategy
\* that yields a file ends the call, which returns that file
C2_StrategyOrder ==
    /\ InDv => IsPrefix(Started(trace), VideoChain)
    /\ InDa => IsPrefix(Started(trace), AudioChain)
    /\ ((InDv \/ InDa) /\ Has(trace, "yield")) =>
          /\ trace[Len(trace)] = "yield"
          /\ ~Has(SubSeq(trace, 1, Len(trace) - 1), "yield")
          /\ ret.kind = "return"
          /\ ret.path # NoPath

\* download_video returns the file of the relay after yt-dlp has failed
C2_Witness ==
    /\ ret.fn = "download_video"
    /\ ret.kind = "return"
    /\ Has(trace, "yield")
    /\ Started(trace) = <<"m1", "m2">>
    /\ ret.path = IdMp4
    /\ ret.size > MinRelaySize
    /\ Len(ret.log) = 1

\* C3: when a media call ends, its error log has one entry for each strategy
\* that was started and did not yield a file, in the order of the attempts
C3_OneEntryPerFailedStrategy ==
    MediaEnded =>
        LET failed == Len(Started(trace)) - (IF Has(trace, "yield") THEN 1 ELSE 0)
        IN  /\ Len(ret.log) = failed
            /\ \A i \in DOMAIN ret.log : ret.log[i].m = i

\* C4: a media call that ends without any strategy having yielded a file has
\* started every strategy of its chain, whatever made each of them fail
C4_ChainNotAborted ==
    (MediaEnded /\ ~Has(trace, "yield")) =>
        Started(trace) = (IF ret.fn = "download_video" THEN VideoChain
                          ELSE AudioChain)

\* download_video raises after the browser of the relay failed to launch and
\* pytube was still tried
C4_Witness ==
    /\ ret.fn = "download_video"
    /\ ret.kind = "raise"
    /\ ret.err = "all_methods_failed"
    /\ ~Has(trace, "launch")
    /\ \E i \in DOMAIN ret.log : ret.log[i].m = 2
    /\ Started(trace) = VideoChain

\* C5: a media call in which no strategy yielded a file raises, whatever
\* files exist
C5_RaisesWhenNothingYielded ==
    (MediaEnded /\ ~Has(trace, "yield")) => ret.kind = "raise"

\* C6: the path a media call returns names a file that exists with a size
\* above zero when the call returns
C6_ReturnedFileNotEmpty ==
    (ret.fn \in {"download_video", "download_audio"} /\ ret.kind = "return") =>
        /\ ret.path # NoPath
        /\ ret.size > 0

C8_EveryRequestedResolverInvoked ==
    (pc = "pg_done" /\ ExtractVideoId(url) # NoId) =>
        /\ want.video => "video" \in page.invoked
        /\ want.audio => "audio" \in page.invoked
        /\ want.transcript => "transcript" \in page.invoked

\* _extract_video_id over the references the calls are given
IdOf == [u \in Refs |-> ExtractVideoId(u)]

\* C9: on a reference without an id the call fails with the invalid-reference
\* error before any delay, browser launch, API call or strategy, and the page
\* invokes nothing beyond the metadata lookup
C9_InvalidReferenceFailsFast ==
    (url \in Refs /\ IdOf[url] = NoId) =>
        /\ pc \in {"gvi", "dv", "da", "pg_done", "call_done"}
        /\ trace = <<>>
        /\ live = {}
        /\ ret.fn # "none" => (ret.kind = "raise" /\ ret.err = "invalid_reference")
        /\ page.invoked \subseteq {"metadata"}
        /\ ~page.meta.saved

\* download_video has failed on a short link without an id
C9_Witness ==
    /\ pc = "call_done"
    /\ url = EmptyShortLink
    /\ ret.fn = "download_video"
    /\ ret.kind = "raise"
    /\ ret.err = "invalid_reference"
    /\ trace = <<>>

\* C10: for every supported shape of reference built on an 11-character
\* token, _extract_video_id returns exactly the token
C10_EveryShapeYieldsToken ==
    (pc = "x_done" /\ sample.token \in Tokens) => vid = sample.token

\* an 11-character token over the alphabet of identifiers
IsToken(v) == Len(v) = IdLen /\ \A i \in DOMAIN v : v[i] \in IdChars

\* C11: whatever _extract_video_id accepts is an 11-character token; any
\* other reference is rejected with no id
C11_AcceptsOnlyTokens ==
    pc = "x_done" => (vid = NoId \/ IsToken(vid))

\* positions of the listed tracks by language
EnglishTracks == {i \in DOMAIN captions.tracks : captions.tracks[i].lang = "en"}

OtherTracks == DOMAIN captions.tracks \ EnglishTracks

\* English tracks whose fetch succeeds
EnglishFetchable == {i \in EnglishTracks : captions.tracks[i].fetch_ok}

\* the first element and the last element of a non-empty set of positions
First(S) == CHOOSE i \in S : \A j \in S : i <= j

Last(S) == CHOOSE i \in S : \A j \in S : j <= i

\* the translation of the candidate succeeds
Translatable == captions.translate_ok /\ captions.translated_fetch_ok

\* a get_transcript call has returned after its default request failed and
\* its enumeration succeeded
EnumeratedDone == pc = "t_done" /\ ~captions.default_ok /\ captions.list_ok

\* the enumeration offers nothing that can be returned
NothingUsable ==
    /\ EnglishFetchable = {}
    /\ \/ OtherTracks = {}
       \/ ~Translatable /\ ~captions.tracks[Last(OtherTracks)].fetch_ok

\* C12: get_transcript never raises, whatever fails; it returns a transcript
\* or the empty sequence, and the empty sequence when the enumeration fails
\* or offers no usable track
C12_TranscriptNeverRaises ==
    /\ ~gt.raised
    /\ ret.fn = "get_transcript" => ret.kind = "return"
    /\ pc = "t_done" =>
          /\ gt.result.kind \in {"default", "en", "translated", "original", "empty"}
          /\ gt.result = TranscriptOf(captions.default_ok, captions.list_ok,
                                      captions.tracks, captions.translate_ok,
                                      captions.translated_fetch_ok)
          /\ (~captions.default_ok /\ (~captions.list_ok \/ NothingUsable)) =>
                gt.result = EmptyTranscript

\* the translation failed and then the candidate's own fetch raised inside
\* the handler; the call still returned the empty sequence
C12_Witness ==
    /\ pc = "t_done"
    /\ gt.other # 0
    /\ Has(trace, "translate")
    /\ trace[Len(trace)] = "fetch_original"
    /\ ~captions.tracks[gt.other].fetch_ok
    /\ ret.kind = "return"
    /\ gt.result = EmptyTranscript

\* C13: with no English track, at least one other track, and a translation
\* that succeeds, the result is the English translation of the candidate
C13_TranslatedWhenNoEnglish ==
    (EnumeratedDone /\ EnglishTracks = {} /\ OtherTracks # {} /\ Translatable) =>
        gt.result = [kind |-> "translated", track |-> Last(OtherTracks)]

\* two non-English tracks, the later one translated
C13_Witness ==
    /\ EnumeratedDone
    /\ EnglishTracks = {}
    /\ Len(captions.tracks) = 2
    /\ Has(trace, "fetch_translated")
    /\ gt.result = [kind |-> "translated", track |-> 2]

\* C14: when the translation of the candidate was attempted and failed, at
\* translate or at the fetch of the translation, and the candidate's own
\* fetch succeeds, the result is the candidate's untranslated transcript
C14_OriginalWhenTranslationFails ==
    (pc = "t_done" /\ Has(trace, "translate") /\ ~Translatable
       /\ captions.tracks[gt.other].fetch_ok) =>
        /\ gt.other = Last(OtherTracks)
        /\ gt.result = [kind |-> "original", track |-> gt.other]

\* translate succeeded, the fetch of the translation raised
C14_Witness ==
    /\ pc = "t_done"
    /\ captions.translate_ok
    /\ Has(trace, "fetch_translated")
    /\ trace[Len(trace)] = "fetch_original"
    /\ gt.result.kind = "original"

\* C15: when an English track whose fetch succeeds is listed, at any
\* position, the result is that track and no translation is attempted
C15_EnglishPreferred ==
    (EnumeratedDone /\ EnglishFetchable # {}) =>
        /\ gt.result = [kind |-> "en", track |-> First(EnglishFetchable)]
        /\ ~Has(trace, "translate")
        /\ ~Has(trace, "fetch_original")

\* the English track comes after a track in another language
C15_Witness ==
    /\ EnumeratedDone
    /\ Len(captions.tracks) = 2
    /\ captions.tracks[1].lang # "en"
    /\ gt.other = 1
    /\ gt.result = [kind |-> "en", track |-> 2]

\* how often an event occurs in the events of a call
Count(tr, e) == Cardinality({i \in DOMAIN tr : tr[i] = e})

\* a get_video_info call is running or has just ended
InGvi ==
    \/ pc \in {"gvi_api", "gs", "gs_body", "gs_finally"}
    \/ pc \in InitPcs /\ iwRet = "scrape"
    \/ ret.fn = "get_video_info"

\* C16: when the API answers with zero results, get_video_info fails with
\* the not-found error and the scraping lookup is not entered
C16_ZeroResultsIsNotFound ==
    (InGvi /\ Has(trace, "api_zero_items")) =>
        /\ ~Has(trace, "scrape")
        /\ ~Has(trace, "launch")
        /\ ret.fn = "get_video_info" => (ret.kind = "raise" /\ ret.err = "not_found")

\* C17: a successful API lookup ends get_video_info with its record and no
\* browser; the scraping lookup is entered only without a credential or
\* after the API lookup failed, and at most once in a call
C17_TerminalOnFirstSuccess ==
    InGvi =>
        /\ Count(trace, "scrape") <= 1
        /\ Count(trace, "api") <= 1
        /\ Has(trace, "scrape") =>
              (~hasApi \/ Has(trace, "api_zero_items") \/ Has(trace, "api_error"))
        /\ Has(trace, "launch") => Has(trace, "scrape")
        /\ Has(trace, "api_ok") =>
              /\ trace = <<"api", "api_ok">>
              /\ ret.fn = "get_video_info" /\ ret.kind = "return"
              /\ live = {}
              /\ page.on => page.info = "api"

\* the page has the record of the API and no browser was launched
C17_Witness ==
    /\ pc = "pg_video"
    /\ hasApi
    /\ trace = <<"api", "api_ok">>
    /\ page.info = "api"
    /\ live = {}

\* C18: when get_video_info_scraping has ended, by return or by raising at
\* any step, no browser is live
C18_ScraperReleasesBrowser ==
    (ret.fn = "get_video_info" /\ Has(trace, "scrape")) => live = {}

\* the scraper raised after the browser was launched and the page loaded
C18_Witness ==
    /\ ret.fn = "get_video_info"
    /\ ret.kind = "raise"
    /\ ret.err = "scraping_error"
    /\ Has(trace, "launch")
    /\ Has(trace, "navigate")
    /\ Has(trace, "quit")
    /\ live = {}

\* C19: when initialize_webdriver raises, the driver field of the session
\* refers to no browser, and no browser is live
C19_NoHandleAfterFailedInit ==
    pc = "di_failed" => (driver = NoDriver /\ live = {})

\* the requests that go out to the network
Requests == {"api", "navigate", "m1", "m2", "m3"}

\* C20: every request to the network is preceded, in the same call, by a
\* pacing delay
C20_DelayBeforeEveryRequest ==
    \A i \in DOMAIN trace :
        trace[i] \in Requests => \E j \in 1..(i - 1) : trace[j] = "delay"

\* C21: with rotation enabled and a non-empty pool, the proxy given to
\* yt-dlp by download_video and download_audio, and to the browser by
\* initialize_webdriver, is a member of the pool
C21_ProxyFromPool ==
    (px.built /\ px.used.by # "none" /\ px.rotation /\ px.proxies # <<>>) =>
        px.used.proxy \in Range(px.proxies)

\* the answers of the provider that are proxies, in order
Fetched(answers) == SelectSeq(answers, LAMBDA a : a \in ProxyNames)

\* C23: _load_proxies ends with a pool whatever fails; entries in the list
\* file mean no fetch; an empty or missing file with rotation enabled means
\* the 5 fetches are all attempted, failing ones included, and the pool is
\* the proxies fetched; without rotation no fetch is made
C23_LoadProxies ==
    /\ px.n <= MaxFetches
    /\ pc = "p_loaded" =>
          /\ px.lines # <<>> => (px.n = 0 /\ px.proxies = px.lines)
          /\ ~px.rotation => (px.n = 0 /\ px.proxies = px.lines)
          /\ px.file = "unreadable" => (px.n = 0 /\ px.proxies = <<>>)
          /\ (px.file # "unreadable" /\ px.lines = <<>> /\ px.rotation) =>
                /\ px.n = MaxFetches
                /\ Len(px.answers) = MaxFetches
                /\ px.proxies = Fetched(px.answers)

\* the first fetch raised, later ones still ran and two proxies were pooled
C23_Witness ==
    /\ pc = "p_loaded"
    /\ px.n = MaxFetches
    /\ px.answers[1] = "raises"
    /\ px.answers[3] = "nothing"
    /\ Len(px.proxies) = 2

\* C28: when the pytube audio strategy has downloaded a stream and the
\* conversion to mp3 fails, download_audio returns the downloaded file, the
\* file still exists, and the strategy adds no entry to the error log
C28_ConversionFailureKeepsDownload ==
    (ret.fn = "download_audio" /\ Has(trace, "convert_failed")) =>
        /\ ret.kind = "return"
        /\ ret.path = TitleMp4
        /\ Exists(fs, TitleMp4)
        /\ \A i \in DOMAIN ret.log : ret.log[i].m # 2

\* yt-dlp raised, pytube downloaded an .mp4 stream, the conversion failed
\* while writing and the .mp4 file came back
C28_Witness ==
    /\ ret.fn = "download_audio"
    /\ Has(trace, "convert_failed")
    /\ ret.kind = "return"
    /\ ret.path = TitleMp4
    /\ ret.size = MinRelaySize
    /\ Exists(fs, TitleMp3)
    /\ Len(ret.log) = 1

\* C27: when the API lookup of get_video_info fails with an error and the
\* scraping lookup fails too, the error get_video_info raises is the one of
\* the scraping lookup
C27_ScrapingErrorPropagates ==
    (ret.fn = "get_video_info" /\ ret.kind = "raise" /\ Has(trace, "api_error")) =>
        ret.err = "scraping_error"

\* the API failed, the page was requested and the scraping lookup failed
C27_Witness ==
    /\ ret.fn = "get_video_info"
    /\ ret.kind = "raise"
    /\ Has(trace, "api_error")
    /\ Has(trace, "navigate")
    /\ ret.err = "scraping_error"

\* C29: the driver field of the session refers to a browser only while that
\* browser is live, and no browser that was already quit is quit again
C29_DriverFieldIsLive ==
    /\ driver # NoDriver => driver \in live
    /\ ~staleQuit

\* C24 as stated: in download_video the browser of the relay strategy has
\* been quit when pytube starts and when the call returns or raises, and the
\* relay's check for a downloaded file is made after the browser was released
C24_RelayReleasedBeforeCheck ==
    /\ (pc \in {"dv_m3", "dv_final"} \/ ret.fn = "download_video") => live = {}
    /\ (InDv /\ Has(trace, "check")) => live = {}

\* C24 amended: the browser of the relay strategy has been quit when pytube
\* starts and when download_video returns or raises, on every exit path of
\* the relay; the relay's check for a downloaded file is made while that
\* browser is still open, and the browser is quit right after it
C24_RelayReleased ==
    /\ (pc \in {"dv_m3", "dv_final"} \/ ret.fn = "download_video") => live = {}
    /\ (pc = "dv_relay_finally" /\ Has(trace, "check")) => (hnd # NoDriver /\ live = {hnd})
    /\ (InDv /\ Has(trace, "check") /\ pc # "dv_relay_finally") =>
           (Has(trace, "quit") /\ live = {})

\* the relay found a file, its browser was quit and download_video returned
C24_Witness ==
    /\ ret.fn = "download_video"
    /\ ret.kind = "return"
    /\ Has(trace, "m2")
    /\ Has(trace, "check")
    /\ Has(trace, "quit")
    /\ live = {}

\* C25: when the loop of get_transcript ends without an English transcript,
\* every track was inspected, failing English fetches included, and the
\* candidate is the last track in another language in enumeration order;
\* the translated or untranslated result comes from that track
C25_CandidateIsLastOther ==
    /\ pc = "t_fallback" =>
          /\ gt.i = Len(captions.tracks) + 1
          /\ Count(trace, "fetch_en") = Cardinality(EnglishTracks)
          /\ gt.other = IF OtherTracks = {} THEN 0 ELSE Last(OtherTracks)
    /\ (pc = "t_done" /\ gt.result.kind \in {"translated", "original"}) =>
          gt.result.track = Last(OtherTracks)

\* the fetch of the English track failed, the scan went on to the track in
\* another language after it, and that track was translated
C25_Witness ==
    /\ pc = "t_done"
    /\ Len(captions.tracks) = 2
    /\ captions.tracks[1].lang = "en"
    /\ Has(trace, "fetch_en")
    /\ gt.other = 2
    /\ gt.result = [kind |-> "translated", track |-> 2]

\* C26: a download_video or download_audio call that has parsed its
\* identifier paces once, before its first strategy, and never between two
\* strategies; every later delay is one of the relay strategy itself (the
\* start of its browser, the waits on the relay page)
C26_OnePacingDelay ==
    ((InDv \/ InDa) /\ trace # <<>>) =>
        /\ trace[1] = "delay"
        /\ Len(trace) >= 2 => trace[2] = "m1"
        /\ \A i \in 2..Len(trace) :
              trace[i] \in StrategyStarts \cup {"final"} => (i = 2 \/ trace[i - 1] # "delay")
        /\ InDa => Count(trace, "delay") = 1
        /\ \A i \in 2..Len(trace) :
              trace[i] = "delay" =>
                  /\ trace[i - 1] \in {"launch", "navigate", "delay"}
                  /\ \E j \in 1..(i - 1) : trace[j] = "m2"
                  /\ \A j \in 1..(i - 1) : trace[j] \notin {"m3", "final"}

\* a download_video call went through its three strategies, the relay
\* waited on its page, and the call ended
C26_Witness ==
    /\ ret.fn = "download_video"
    /\ Has(trace, "m3")
    /\ Has(trace, "check")
    /\ Count(trace, "delay") = 4

\* C22: when download_video or download_audio raises because every
\* strategy failed, the message carries the cookie-export hint if a logged
\* error text suggests an age restriction and the alternate-egress hint if
\* one suggests a geographic restriction; the error raised is the same
C22_HintsFollowErrorText ==
    (ret.fn \in {"download_video", "download_audio"} /\ ret.err = "all_methods_failed") =>
        /\ ret.kind = "raise"
        /\ (\E i \in DOMAIN ret.log : MentionsAge(ret.log[i].text)) => "cookies" \in ret.hints
        /\ (\E i \in DOMAIN ret.log : MentionsGeo(ret.log[i].text)) => "vpn" \in ret.hints

\* how many steps a call of the scraper has left at most: every position of
\* get_video_info, get_transcript, download_video and download_audio, with
\* initialize_webdriver inside them; 0 outside a call
Rank ==
    CASE pc \in {"gvi", "dv", "da", "gt"}                  -> 30
      [] pc \in {"gvi_api", "dv_m1", "da_m1"}              -> 29
      [] pc \in {"gs", "dv_m2", "da_m2"}                   -> 28
      [] pc = "iw"                                         -> 27
      [] pc = "iw_launch"                                  -> 26
      [] pc = "iw_stealth"                                 -> 25
      [] pc = "iw_except"                                  -> 24
      [] pc \in {"gs_body", "dv_relay", "dv_m2_failed"}    -> 23
      [] pc \in {"gs_finally", "dv_relay_finally"}         -> 22
      [] pc = "dv_m3"                                      -> 21
      [] pc \in {"dv_final", "da_final"}                   -> 20
      [] pc = "t_default"                                  -> Len(captions.tracks) + 13
      [] pc = "t_list"                                     -> Len(captions.tracks) + 12
      [] pc = "t_scan"                                     -> Len(captions.tracks) + 11 - gt.i
      [] pc = "t_fallback"                                 -> 9
      [] pc = "t_original"                                 -> 8
      [] pc = "t_empty"                                    -> 7
      [] OTHER                                             -> 0

\* C30: a call of get_video_info, get_transcript, download_video or
\* download_audio terminates: every step of a running call, each taken once
\* its external call has returned or raised, brings the call strictly closer
\* to its end, so that no strategy or state is entered twice and each track
\* is inspected at most once, and the call ends with a returned value or a
\* raised error
C30_CallsTerminate ==
    /\ [][Rank > 0 => Rank' < Rank]_vars
    /\ [](pc \in {"call_done", "t_done"} => ret.kind \in {"return", "raise"})

\* download_video ran its three strategies, the relay waited on its page,
\* every strategy failed and the call ended by raising
C30_Witness ==
    /\ pc = "call_done"
    /\ ret.fn = "download_video"
    /\ ret.kind = "raise"
    /\ Has(trace, "check")
    /\ Has(trace, "final")
    /\ Len(ret.log) = 2

====
